---------------------------- MODULE Spec2Model ----------------------------
(***************************************************************************)
(* A model of gows, a reconnecting websocket client.                       *)
(*                                                                         *)
(*   - the reviver goroutine (connect / setConnection / clearConnection)   *)
(*     of src/unnamed/part_003,                                            *)
(*   - the public operations of src/unnamed/part_002 (Connect, Reconnect,  *)
(*     Send, BlockSend, UnblockSend, Disconnect),                          *)
(*   - the consumer goroutine of src/unnamed/part_001 and the goroutines   *)
(*     it starts for the message handler,                                  *)
(*   - the sender goroutine of src/sender.go (the revision that drains the *)
(*     channel queue of src/queue.go),                                     *)
(*   - the send queue of src/queue.go.                                     *)
(*                                                                         *)
(* Every goroutine is a process with a program counter; a step of the      *)
(* model is one step of one goroutine.  An unbuffered channel operation is *)
(* a rendezvous: it is one step that moves both parties.                   *)
(***************************************************************************)
EXTENDS Integers, Sequences, FiniteSets, TLC

\* ------------------------------------------------------------------ bounds
\* The number of connections the dialer hands out in one run.
MaxGen == 2
\* The number of dial attempts the dialer refuses in one run.
MaxDialFails == 2
\* The number of read/write failures the transport injects in one run.
MaxFaults == 2
\* The number of messages the application sends in one run.
MaxMsgs == 2
\* The number of BlockSend calls the application makes in one run.
MaxPauses == 1
\* The largest value of Configuration.ConnectionRetries that is tried.
MaxRetries == 2
\* The number of Disconnect calls the application makes in one run.
MaxDisconnects == 2

\* The largest attempt number getRetryDuration is called with.
MaxAttempt == 4

\* The number of messages read whose handler goroutines are followed.
MaxReads == 3

\* The number of Reconnect calls in one run.
MaxReconnects == 1

Gens == 1..MaxGen
Reads == 1..MaxReads
Msgs == 1..MaxMsgs

VARIABLES
    \* Configuration (src/configuration.go:18,27), fixed for a run
    ConnectionRetries,
    RetryInitialConnection,
    URL,                   \* Configuration.URL: "valid", or "malformed" when
                           \* url.Parse rejects it
    ConnectionRetryFactor,     \* a fraction <<numerator, denominator>>
    ConnectionRetryTimeoutMin, \* a time.Duration: a number of nanoseconds
    ConnectionRetryTimeoutMax, \* a time.Duration: a number of nanoseconds
    ConnectionRetryRandomize,
    \* the Websocket struct (src/unnamed/part_002:10-35)
    connected,             \* ws.connected
    connection,            \* ws.connection: 0 is nil, otherwise a connection id
    stopChannel,           \* ws.stopChannel: "open" or "closed"
    consumerStopChannel,   \* ws.consumerStopChannel: 0 is nil, otherwise a channel id
    consumerStopClosed,    \* whether that channel has been closed
    senderStopChannel,     \* ws.senderStopChannel: 0 is nil, otherwise a channel id
    connectionDroppedChannel, \* ws.connectionDroppedChannel: 0 is nil, otherwise a channel id
    \* the caller of Connect (src/unnamed/part_002:68-75)
    connectCall,           \* "none", "waiting", "nil" (returned nil), "error"
    disconnectCalls,       \* number of Disconnect calls that returned
    \* the reviver goroutine (src/unnamed/part_003:11-89)
    rpc,                   \* its program counter
    retries,               \* the argument of connect
    attempt,               \* the local attempt of connect
    rconn,                 \* the connection connect returned (0 is nil)
    initial,               \* TRUE until the initial connection is reported
    stopping,              \* TRUE when clearConnection runs for the stop case
    \* the transport
    connOpen,              \* connOpen[c]: connection c was dialed and not closed locally
    gen,                   \* number of connections dialed so far
    dialFails,             \* number of failed dial attempts so far
    faults,                \* number of injected transport failures so far
    \* the consumer goroutines, one slot per generation
    cpc,                   \* program counter
    cconn,                 \* the connection resolved at start-up
    cdrop,                 \* the drop channel its close handler is sending on
    \* the sender goroutines, one slot per generation
    spc,                   \* program counter
    sconn,                 \* the connection resolved for the write under way
    sstop,                 \* the stop channel its select is waiting on
    smsg,                  \* the message popped (0 for a ping)
    \* the send queue (src/queue.go)
    loc,                   \* loc[m]: where message m is
    qpc,                   \* program counter of queue.run
    qentry,                \* the entry queue.run holds in writeOutput
    qstop,                 \* queue.stopChannel: "open" or "closed"
    pausers,               \* goroutines blocked in queue.pause
    resumers,              \* goroutines blocked in queue.resume
    \* the caller of BlockSend and UnblockSend (src/unnamed/part_002:117-125)
    blockCall,             \* "none", "pausing" (in BlockSend), "paused"
                           \* (BlockSend returned), "resuming" (in UnblockSend)
    blockCount,            \* number of BlockSend calls made
    heldAtPause,           \* the messages the queue held when BlockSend returned
    \* the last call of getRetryDuration (src/configuration.go:33-43)
    retryCall,             \* <<>> or <<attempt, duration returned>>
    \* the calls of handleConnectionError (src/unnamed/part_003:179-186)
    craises,               \* craises[g]: calls made by the consumer of generation g
    sraises,               \* sraises[g]: calls made by the sender of generation g
    \* the message handler goroutines of the consumers (src/unnamed/part_001:57-61)
    tracked,               \* how many of the messages read are followed (the first ones)
    nread,                 \* number of messages read so far that are followed
    hpc,                   \* hpc[i]: the goroutine for the i-th message read: "none",
                           \* "spawned", "running" (in the handler), "returned"
    hookCalls,             \* the messages the handler was called with, in order
    \* the caller of Reconnect (src/unnamed/part_002:77-84)
    reconnectCall,         \* "none", or "closing": past the check of ws.connected
    reconnectCount,        \* number of Reconnect calls made
    reconnectCloses,       \* number of Reconnect calls that closed a connection
    \* observation
    initialDials,          \* dial attempts made by the initial connect
    initialSleeps,         \* time.Sleep calls made by the initial connect
    connectedCalls,        \* invocations of the connected handler
    disconnectedCalls,     \* invocations of the disconnected handler
    written,               \* the messages written successfully, in order
    lastFailed,            \* the message whose write failed last and is not yet written
    panicked               \* "none" or the reason the process crashed

cfgVars  == <<ConnectionRetries, RetryInitialConnection, URL,
              ConnectionRetryFactor, ConnectionRetryTimeoutMin,
              ConnectionRetryTimeoutMax, ConnectionRetryRandomize>>
wsVars   == <<connected, connection, stopChannel, consumerStopChannel,
              consumerStopClosed, senderStopChannel, connectionDroppedChannel>>
appVars  == <<connectCall, disconnectCalls>>
revVars  == <<rpc, retries, attempt, rconn, initial, stopping>>
netVars  == <<connOpen, gen, dialFails, faults>>
consVars == <<cpc, cconn, cdrop>>
sendVars == <<spc, sconn, sstop, smsg>>
qVars    == <<loc, qpc, qentry, qstop, pausers, resumers>>
pauseVars == <<blockCall, blockCount, heldAtPause>>
retryVars == <<retryCall>>
raiseVars == <<craises, sraises>>
hookVars == <<tracked, nread, hpc, hookCalls>>
reconnVars == <<reconnectCall, reconnectCount, reconnectCloses>>
obsVars  == <<initialDials, initialSleeps, connectedCalls, disconnectedCalls,
              written, lastFailed, panicked>>
vars == <<cfgVars, reconnVars, hookVars, wsVars, appVars, revVars, netVars, consVars, sendVars,
          qVars, pauseVars, retryVars, raiseVars, obsVars>>

\* ------------------------------------------------------------------- Init
\* New (src/unnamed/part_002:38-65) and newQueue (src/queue.go:18-29): the
\* client as it is constructed, whatever its configuration.
New ==
    /\ connected = FALSE
    /\ connection = 0
    /\ stopChannel = "open"
    /\ consumerStopChannel = 0
    /\ consumerStopClosed = FALSE
    /\ senderStopChannel = 0
    /\ connectionDroppedChannel = 0
    /\ connectCall = "none"
    /\ disconnectCalls = 0
    /\ rpc = "idle"
    /\ retries = FALSE
    /\ attempt = 0
    /\ rconn = 0
    /\ initial = TRUE
    /\ stopping = FALSE
    /\ connOpen = [c \in Gens |-> FALSE]
    /\ gen = 0
    /\ dialFails = 0
    /\ faults = 0
    /\ cpc = [g \in Gens |-> "none"]
    /\ cconn = [g \in Gens |-> 0]
    /\ cdrop = [g \in Gens |-> 0]
    /\ spc = [g \in Gens |-> "none"]
    /\ sconn = [g \in Gens |-> 0]
    /\ sstop = [g \in Gens |-> 0]
    /\ smsg = [g \in Gens |-> 0]
    /\ loc = [m \in Msgs |-> "unsent"]
    /\ qpc = "outer"
    /\ qentry = 0
    /\ qstop = "open"
    /\ pausers = 0
    /\ resumers = 0
    /\ blockCall = "none"
    /\ blockCount = 0
    /\ heldAtPause = {}
    /\ retryCall = <<>>
    /\ initialDials = 0
    /\ initialSleeps = 0
    /\ connectedCalls = 0
    /\ disconnectedCalls = 0
    /\ craises = [g \in Gens |-> 0]
    /\ sraises = [g \in Gens |-> 0]
    /\ nread = 0
    /\ hpc = [i \in Reads |-> "none"]
    /\ hookCalls = <<>>
    /\ reconnectCall = "none"
    /\ reconnectCount = 0
    /\ reconnectCloses = 0
    /\ written = <<>>
    /\ lastFailed = 0
    /\ panicked = "none"

\* The client constructed with the retry delays of the usage example
\* (src/README.md:71-74, in seconds) and any retry policy and URL.
Init ==
    /\ ConnectionRetries \in 0..MaxRetries
    /\ RetryInitialConnection \in BOOLEAN
    /\ URL \in {"valid", "malformed"}
    /\ ConnectionRetryFactor = <<2, 1>>
    /\ ConnectionRetryTimeoutMin = 1
    /\ ConnectionRetryTimeoutMax = 5
    /\ ConnectionRetryRandomize = FALSE
    /\ New
    /\ tracked = 0


\* A panic in any goroutine ends the process: nothing runs after it.
Running == panicked = "none"

\* ------------------------------------------------------- public operations
\* Connect (src/unnamed/part_002:68-75): starts the reviver and waits on the
\* initial connection error channel.  The reviver begins with
\* connect(ws.configuration.RetryInitialConnection) (src/unnamed/part_003:53).
Connect ==
    /\ Running
    /\ connectCall = "none"
    /\ rpc = "idle"
    /\ connectCall' = "waiting"
    /\ rpc' = "dial"
    /\ retries' = RetryInitialConnection
    /\ attempt' = 0
    /\ UNCHANGED <<cfgVars, reconnVars, hookVars, raiseVars, pauseVars, retryVars, wsVars, disconnectCalls, rconn, initial, stopping,
                   netVars, consVars, sendVars, qVars, obsVars>>

\* Disconnect (src/unnamed/part_002:128-132): closes the stop channel when the
\* connected flag is set.  Closing a closed channel panics.
Disconnect ==
    /\ Running
    /\ disconnectCalls < MaxDisconnects
    /\ disconnectCalls' = disconnectCalls + 1
    /\ IF connected
         THEN IF stopChannel = "closed"
                THEN /\ panicked' = "close of closed channel"
                     /\ UNCHANGED stopChannel
                ELSE /\ stopChannel' = "closed"
                     /\ UNCHANGED panicked
         ELSE UNCHANGED <<stopChannel, panicked>>
    /\ UNCHANGED <<cfgVars, reconnVars, hookVars, raiseVars, pauseVars, retryVars, connected, connection, consumerStopChannel,
                   consumerStopClosed, senderStopChannel,
                   connectionDroppedChannel, connectCall, revVars,
                   netVars, consVars, sendVars, qVars, initialDials, initialSleeps,
                   connectedCalls, disconnectedCalls, written, lastFailed>>

\* Send (src/unnamed/part_002:87-89) is queue.push (src/queue.go:37-39): it
\* starts a handleInput goroutine on the secondary input channel and returns.
\* The application sends message 1, then 2, ...; the goroutines of two calls
\* run in no order, so that any of them may be the one queue.run receives from.
Send(m) ==
    /\ Running
    /\ loc[m] = "unsent"
    /\ \A k \in Msgs : k < m => loc[k] # "unsent"
    /\ loc' = [loc EXCEPT ![m] = "secondary"]
    /\ UNCHANGED <<cfgVars, reconnVars, hookVars, raiseVars, pauseVars, retryVars, wsVars, appVars, revVars, netVars, consVars,
                   sendVars, qpc, qentry, qstop, pausers, resumers, obsVars>>

\* Reconnect, the check (src/unnamed/part_002:80-82): return nil when the
\* client is not connected.
Reconnect_check ==
    /\ Running
    /\ connectCall = "nil"
    /\ reconnectCall = "none"
    /\ reconnectCount < MaxReconnects
    /\ reconnectCount' = reconnectCount + 1
    /\ reconnectCall' = IF connected THEN "closing" ELSE "none"
    /\ UNCHANGED <<cfgVars, reconnectCloses, hookVars, raiseVars, pauseVars, retryVars, wsVars, appVars, revVars,
                   netVars, consVars, sendVars, qVars, obsVars>>

\* Reconnect, the close (src/unnamed/part_002:83): ws.connection is read
\* without the connection lock and closed; Close on a nil connection
\* dereferences it.
Reconnect_close ==
    /\ Running
    /\ reconnectCall = "closing"
    /\ reconnectCall' = "none"
    /\ IF connection = 0
         THEN /\ panicked' = "Close on a nil connection"
              /\ UNCHANGED <<connOpen, reconnectCloses>>
         ELSE /\ connOpen' = [connOpen EXCEPT ![connection] = FALSE]
              /\ reconnectCloses' = reconnectCloses + 1
              /\ UNCHANGED panicked
    /\ UNCHANGED <<cfgVars, reconnectCount, hookVars, raiseVars, pauseVars, retryVars, wsVars, appVars, revVars,
                   gen, dialFails, faults, consVars, sendVars, qVars, initialDials,
                   initialSleeps, connectedCalls, disconnectedCalls, written,
                   lastFailed>>

\* Send (src/unnamed/part_002:87-89) by an application that never runs out of
\* messages: a message already written is sent once more, and the record of
\* its earlier write is dropped.
Send_again(m) ==
    /\ Running
    /\ loc[m] = "written"
    /\ loc' = [loc EXCEPT ![m] = "secondary"]
    /\ written' = SelectSeq(written, LAMBDA k : k # m)
    /\ UNCHANGED <<cfgVars, reconnVars, hookVars, raiseVars, pauseVars, retryVars, wsVars, appVars, revVars, netVars, consVars,
                   sendVars, qpc, qentry, qstop, pausers, resumers, initialDials,
                   initialSleeps, connectedCalls, disconnectedCalls, lastFailed,
                   panicked>>

\* ------------------------------------------------------- the retry delays
RECURSIVE Pow(_, _)
\* math.Pow for a whole exponent n >= 0.
Pow(b, n) ==
    IF n = 0 THEN 1 ELSE b * Pow(b, n - 1)

\* The values of random (src/configuration.go:34-37): 1, or rand.Float64() + 1
\* in [1, 2), as fractions <<numerator, denominator>>.
Randoms ==
    IF ConnectionRetryRandomize
      THEN {<<1, 1>>, <<5, 4>>, <<3, 2>>, <<7, 4>>}
      ELSE {<<1, 1>>}

\* getRetryDuration with the attempts counted from one.
getRetryDurationNextAttempt(a, random) ==
    LET n == random[1] * ConnectionRetryTimeoutMin
                 * Pow(ConnectionRetryFactor[1], a + 1)
        d == random[2] * Pow(ConnectionRetryFactor[2], a + 1)
    IN  IF n >= ConnectionRetryTimeoutMax * d
          THEN ConnectionRetryTimeoutMax
          ELSE n \div d

\* getRetryDuration without the cap.
getRetryDurationUncapped(a, random) ==
    LET n == random[1] * ConnectionRetryTimeoutMin
                 * Pow(ConnectionRetryFactor[1], a)
        d == random[2] * Pow(ConnectionRetryFactor[2], a)
    IN  n \div d

\* getRetryDuration (src/configuration.go:33-43): the product
\* random * min * factor^attempt as the fraction n / d, math.Min with max, and
\* the conversion to int64, which drops the fraction of a nanosecond.
getRetryDuration(a, random) ==
    LET n == random[1] * ConnectionRetryTimeoutMin
                 * Pow(ConnectionRetryFactor[1], a)
        d == random[2] * Pow(ConnectionRetryFactor[2], a)
    IN  IF n >= ConnectionRetryTimeoutMax * d
          THEN ConnectionRetryTimeoutMax
          ELSE n \div d

\* A call of getRetryDuration, as connect makes it before it sleeps
\* (src/unnamed/part_003:45).
getRetryDuration_call ==
    /\ \E a \in 0..MaxAttempt : \E random \in Randoms :
          retryCall' = <<a, getRetryDuration(a, random)>>
    /\ UNCHANGED <<cfgVars, reconnVars, hookVars, raiseVars, pauseVars, wsVars, appVars, revVars, netVars,
                   consVars, sendVars, qVars, obsVars>>

\* ------------------------------------------------------------- the reviver
\* keepTrying with the attempts counted from one: one attempt too many.
keepTryingOffByOne(r, a) ==
    r /\ (ConnectionRetries = 0 \/ a < ConnectionRetries)

\* keepTrying without the retries argument of connect.
keepTryingIgnoringFlag(r, a) ==
    ConnectionRetries = 0 \/ a < (ConnectionRetries - 1)

\* src/unnamed/part_003:37: whether connect goes on after a failed dial, for
\* the argument r of connect and a failed attempts before this one.
keepTrying(r, a) ==
    r /\ (ConnectionRetries = 0 \/ a < (ConnectionRetries - 1))

\* getDialer with the error of url.Parse dropped.
getDialerIgnoringParseError ==
    "dialer"

\* getDialer (src/configuration.go:46-57): an error when the URL does not
\* parse, otherwise a dialer.
getDialer ==
    IF URL = "malformed" THEN "error" ELSE "dialer"

\* connect, getDialer fails (src/unnamed/part_003:23-27): connect returns
\* (nil, err) at once, whatever its argument.
connect_getDialerFail ==
    /\ Running
    /\ rpc = "dial"
    /\ getDialer = "error"
    /\ rconn' = 0
    /\ rpc' = IF initial THEN "initErr" ELSE "install"
    /\ UNCHANGED <<cfgVars, reconnVars, hookVars, raiseVars, pauseVars, retryVars, wsVars, appVars, retries, attempt,
                   initial, stopping, netVars, consVars, sendVars, qVars,
                   obsVars>>

\* connect_dialOK with the success reported to Connect before the connection
\* is saved.
connect_dialOKReportedFirst ==
    /\ Running
    /\ rpc = "dial"
    /\ getDialer = "dialer"
    /\ gen < MaxGen
    /\ gen' = gen + 1
    /\ connOpen' = [connOpen EXCEPT ![gen + 1] = TRUE]
    /\ rconn' = gen + 1
    /\ rpc' = IF initial THEN "initOK" ELSE "install"
    /\ initialDials' = IF initial THEN initialDials + 1 ELSE initialDials
    /\ UNCHANGED <<cfgVars, reconnVars, hookVars, raiseVars, pauseVars, retryVars, wsVars, appVars, retries, attempt,
                   initial, stopping, dialFails, faults, consVars, sendVars,
                   qVars, initialSleeps, connectedCalls, disconnectedCalls,
                   written, lastFailed, panicked>>

\* connect, a successful dial (src/unnamed/part_003:30-34): a fresh connection.
connect_dialOK ==
    /\ Running
    /\ rpc = "dial"
    /\ getDialer = "dialer"
    /\ gen < MaxGen
    /\ gen' = gen + 1
    /\ connOpen' = [connOpen EXCEPT ![gen + 1] = TRUE]
    /\ rconn' = gen + 1
    /\ rpc' = "install"
    /\ initialDials' = IF initial THEN initialDials + 1 ELSE initialDials
    /\ UNCHANGED <<cfgVars, reconnVars, hookVars, raiseVars, pauseVars, retryVars, wsVars, appVars, retries, attempt, initial, stopping,
                   dialFails, faults, consVars, sendVars, qVars, initialSleeps,
                   connectedCalls, disconnectedCalls, written, lastFailed, panicked>>

\* connect, a failed dial (src/unnamed/part_003:30-42): either go on to the
\* sleep, or return (nil, err).  The reviver sends the error of the initial
\* connect to Connect (line 55) and passes the result of a later connect
\* to setConnection whatever it is (lines 85-86).
connect_dialFail ==
    /\ Running
    /\ rpc = "dial"
    /\ getDialer = "dialer"
    /\ dialFails < MaxDialFails
    /\ dialFails' = dialFails + 1
    /\ initialDials' = IF initial THEN initialDials + 1 ELSE initialDials
    /\ IF keepTrying(retries, attempt)
         THEN /\ rpc' = "sleep"
              /\ UNCHANGED rconn
         ELSE /\ rconn' = 0
              /\ rpc' = IF initial THEN "initErr" ELSE "install"
    /\ UNCHANGED <<cfgVars, reconnVars, hookVars, raiseVars, pauseVars, retryVars, wsVars, appVars, retries, attempt, initial, stopping,
                   connOpen, gen, faults, consVars, sendVars, qVars, initialSleeps,
                   connectedCalls, disconnectedCalls, written, lastFailed, panicked>>

\* connect, the sleep between attempts (src/unnamed/part_003:44-46).
connect_sleep ==
    /\ Running
    /\ rpc = "sleep"
    /\ initialSleeps' = IF initial THEN initialSleeps + 1 ELSE initialSleeps
    /\ attempt' = attempt + 1
    /\ rpc' = "dial"
    /\ UNCHANGED <<cfgVars, reconnVars, hookVars, raiseVars, pauseVars, retryVars, wsVars, appVars, retries, rconn, initial, stopping,
                   netVars, consVars, sendVars, qVars, initialDials,
                   connectedCalls, disconnectedCalls, written, lastFailed, panicked>>

\* reviver, the initial connect failed and the reviver runs the teardown,
\* with its call of the disconnected handler, before it reports the error.
reviver_initialErrorClearing ==
    /\ Running
    /\ rpc = "initErr"
    /\ connectCall = "waiting"
    /\ connectCall' = "error"
    /\ rpc' = "done"
    /\ disconnectedCalls' = disconnectedCalls + 1
    /\ UNCHANGED <<cfgVars, reconnVars, hookVars, raiseVars, pauseVars, retryVars, wsVars, disconnectCalls, retries, attempt, rconn,
                   initial, stopping, netVars, consVars, sendVars, qVars,
                   initialDials, initialSleeps, connectedCalls, written, lastFailed,
                   panicked>>

\* reviver, the initial connect failed (src/unnamed/part_003:54-57): hand the
\* error to Connect, which is receiving, and return.
reviver_initialError ==
    /\ Running
    /\ rpc = "initErr"
    /\ connectCall = "waiting"
    /\ connectCall' = "error"
    /\ rpc' = "done"
    /\ UNCHANGED <<cfgVars, reconnVars, hookVars, raiseVars, pauseVars, retryVars, wsVars, disconnectCalls, retries, attempt, rconn,
                   initial, stopping, netVars, consVars, sendVars, qVars, obsVars>>

\* The only writes of the connected flag that Disconnect, Reconnect and
\* IsConnected read are those of setConnection and clearConnection in
\* src/connection.go (lines 127 and 167).
connected_SetTo(b) ==
    connected' = b

\* setConnection, installing the connection under the connection lock
\* (src/unnamed/part_003:92-111).  Calling SetCloseHandler on a nil connection
\* panics.
setConnection_install ==
    /\ Running
    /\ rpc = "install"
    /\ connection' = rconn
    /\ connectionDroppedChannel' = IF rconn = 0 THEN gen + 1 ELSE rconn
    /\ IF rconn = 0
         THEN /\ panicked' = "nil connection"
              /\ UNCHANGED rpc
         ELSE /\ rpc' = "connected"
              /\ UNCHANGED panicked
    /\ UNCHANGED <<cfgVars, reconnVars, hookVars, raiseVars, pauseVars, retryVars, connected, stopChannel, consumerStopChannel,
                   consumerStopClosed, senderStopChannel, appVars, retries,
                   attempt, rconn, initial, stopping, netVars, consVars,
                   sendVars, qVars, initialDials, initialSleeps, connectedCalls,
                   disconnectedCalls, written, lastFailed>>

\* setConnection, calling the connected handler (src/unnamed/part_003:113-118).
\* The connected flag is set where src/connection.go:127 sets it, right
\* before the handler is called.
setConnection_connected ==
    /\ Running
    /\ rpc = "connected"
    /\ connected_SetTo(TRUE)
    /\ connectedCalls' = connectedCalls + 1
    /\ rpc' = "start"
    /\ UNCHANGED <<cfgVars, reconnVars, hookVars, raiseVars, pauseVars, retryVars, connection, stopChannel, consumerStopChannel,
                   consumerStopClosed, senderStopChannel,
                   connectionDroppedChannel, appVars, retries, attempt, rconn,
                   initial, stopping, netVars, consVars, sendVars, qVars,
                   initialDials, initialSleeps, disconnectedCalls, written,
                   lastFailed, panicked>>


\* startConsumer (src/unnamed/part_001:67-72): a fresh stop channel and a
\* consumer goroutine; g is the generation that is starting.
startConsumer(g) ==
    /\ consumerStopChannel' = g
    /\ consumerStopClosed' = FALSE
    /\ cpc' = [cpc EXCEPT ![g] = "start"]

\* startSender (src/sender.go:73-90): nothing when a stop channel is set,
\* otherwise a fresh stop channel and a sender goroutine.
startSender(g) ==
    IF senderStopChannel # 0
      THEN UNCHANGED <<senderStopChannel, spc>>
      ELSE /\ senderStopChannel' = g
           /\ spc' = [spc EXCEPT ![g] = "enter"]

\* setConnection, starting the pumps after the connected handler has returned
\* (src/unnamed/part_003:120-125).
setConnection_start ==
    /\ Running
    /\ rpc = "start"
    /\ startConsumer(rconn)
    /\ startSender(rconn)
    /\ rpc' = IF initial THEN "initOK" ELSE "loop"
    /\ UNCHANGED <<cfgVars, reconnVars, hookVars, raiseVars, pauseVars, retryVars, connected, connection, stopChannel,
                   connectionDroppedChannel, appVars, retries, attempt, rconn,
                   initial, stopping, netVars, cconn, cdrop, sconn, sstop, smsg,
                   qVars, obsVars>>

\* reviver, the initial connection is up (src/unnamed/part_003:62-63): closing
\* the error channel makes Connect return nil.
reviver_initialOK ==
    /\ Running
    /\ rpc = "initOK"
    /\ connectCall = "waiting"
    /\ connectCall' = "nil"
    /\ initial' = FALSE
    /\ rpc' = "loop"
    /\ UNCHANGED <<cfgVars, reconnVars, hookVars, raiseVars, pauseVars, retryVars, wsVars, disconnectCalls, retries, attempt, rconn,
                   stopping, netVars, consVars, sendVars, qVars, obsVars>>

\* reviver, entering the select of its loop (src/unnamed/part_003:66-67): from
\* here on it is a receiver on the stop and drop channels.
reviver_select ==
    /\ Running
    /\ rpc = "loop"
    /\ rpc' = "select"
    /\ UNCHANGED <<cfgVars, reconnVars, hookVars, raiseVars, pauseVars, retryVars, wsVars, appVars, retries, attempt, rconn, initial,
                   stopping, netVars, consVars, sendVars, qVars, obsVars>>

\* reviver, the stop case (src/unnamed/part_003:69-71).
reviver_stop ==
    /\ Running
    /\ rpc = "select"
    /\ stopChannel = "closed"
    /\ stopping' = TRUE
    /\ rpc' = "clear"
    /\ UNCHANGED <<cfgVars, reconnVars, hookVars, raiseVars, pauseVars, retryVars, wsVars, appVars, retries, attempt, rconn, initial,
                   netVars, consVars, sendVars, qVars, obsVars>>

\* reviver, the drop case (src/unnamed/part_003:73-82), as the receiving half
\* of a send on the drop channel d: the error received is never nil.
reviver_receiveDrop(d) ==
    /\ rpc = "select"
    /\ d # 0
    /\ d = connectionDroppedChannel
    /\ stopping' = FALSE
    /\ rpc' = "clear"

\* handleConnectionError (src/unnamed/part_003:181-186): a send on the current
\* drop channel that is given up when no receiver is waiting.
handleConnectionError ==
    IF rpc = "select" /\ connectionDroppedChannel # 0
      THEN reviver_receiveDrop(connectionDroppedChannel)
      ELSE UNCHANGED <<rpc, stopping>>

\* stopConsumer (src/unnamed/part_001:75-79): closes the stop channel; closing
\* a nil or a closed channel panics.
stopConsumer ==
    IF consumerStopChannel = 0 \/ consumerStopClosed
      THEN /\ panicked' = "close of nil or closed channel"
           /\ UNCHANGED consumerStopClosed
      ELSE /\ consumerStopClosed' = TRUE
           /\ UNCHANGED panicked

\* stopSender (src/sender.go:93-100): closes and clears the stop channel when
\* it is set.  A closed sender stop channel is one that is no longer the field.
stopSender ==
    senderStopChannel' = 0

\* clearConnection, stopping the pumps (src/unnamed/part_003:131-138).  The
\* connected flag is cleared where src/connection.go:167 clears it, first.
clearConnection_stop ==
    /\ Running
    /\ rpc = "clear"
    /\ connected_SetTo(FALSE)
    /\ stopConsumer
    /\ stopSender
    /\ rpc' = "close"
    /\ UNCHANGED <<cfgVars, reconnVars, hookVars, raiseVars, pauseVars, retryVars, connection, stopChannel, consumerStopChannel,
                   connectionDroppedChannel, appVars, retries, attempt, rconn,
                   initial, stopping, netVars, consVars, sendVars, qVars,
                   initialDials, initialSleeps, connectedCalls, disconnectedCalls,
                   written, lastFailed>>

\* clearConnection, clearing the field without closing the connection.
clearConnection_closeLeavingOpen ==
    /\ Running
    /\ rpc = "close"
    /\ connection' = 0
    /\ disconnectedCalls' = disconnectedCalls + 1
    /\ IF stopping
         THEN /\ rpc' = "done"
              /\ UNCHANGED <<retries, attempt>>
         ELSE /\ rpc' = "dial"
              /\ retries' = TRUE
              /\ attempt' = 0
    /\ UNCHANGED <<cfgVars, reconnVars, hookVars, raiseVars, pauseVars, retryVars, connected, stopChannel, consumerStopChannel,
                   consumerStopClosed, senderStopChannel,
                   connectionDroppedChannel, appVars, rconn, initial, stopping,
                   netVars, consVars, sendVars, qVars,
                   initialDials, initialSleeps, connectedCalls, written, lastFailed,
                   panicked>>

\* clearConnection, closing and clearing the connection and calling the
\* disconnected handler (src/unnamed/part_003:140-166); then the reviver
\* returns (line 71) or calls connect(true) (line 85).
clearConnection_close ==
    /\ Running
    /\ rpc = "close"
    /\ connOpen' = IF connection # 0 THEN [connOpen EXCEPT ![connection] = FALSE]
                                     ELSE connOpen
    /\ connection' = 0
    /\ disconnectedCalls' = disconnectedCalls + 1
    /\ IF stopping
         THEN /\ rpc' = "done"
              /\ UNCHANGED <<retries, attempt>>
         ELSE /\ rpc' = "dial"
              /\ retries' = TRUE
              /\ attempt' = 0
    /\ UNCHANGED <<cfgVars, reconnVars, hookVars, raiseVars, pauseVars, retryVars, connected, stopChannel, consumerStopChannel,
                   consumerStopClosed, senderStopChannel,
                   connectionDroppedChannel, appVars, rconn, initial, stopping,
                   gen, dialFails, faults, consVars, sendVars, qVars,
                   initialDials, initialSleeps, connectedCalls, written, lastFailed,
                   panicked>>

\* getConnection (src/unnamed/part_003:170-177).
getConnection == connection


\* ------------------------------------------------------------ the consumer
\* consumer, start-up (src/unnamed/part_001:14-27): resolve the connection and
\* return when there is none.
consumer_start(g) ==
    /\ Running
    /\ cpc[g] = "start"
    /\ IF getConnection = 0
         THEN /\ cpc' = [cpc EXCEPT ![g] = "done"]
              /\ UNCHANGED cconn
         ELSE /\ cconn' = [cconn EXCEPT ![g] = getConnection]
              /\ cpc' = [cpc EXCEPT ![g] = "loop"]
    /\ UNCHANGED <<cfgVars, reconnVars, hookVars, raiseVars, pauseVars, retryVars, wsVars, appVars, revVars, netVars, cdrop, sendVars,
                   qVars, obsVars>>

\* consumer, the select of its loop (src/unnamed/part_001:29-36): return when
\* the stop channel (the field, read now) is closed, otherwise read.
consumer_loop(g) ==
    /\ Running
    /\ cpc[g] = "loop"
    /\ IF consumerStopChannel # 0 /\ consumerStopClosed
         THEN /\ cpc' = [cpc EXCEPT ![g] = "done"]
              /\ cconn' = [cconn EXCEPT ![g] = 0]
         ELSE /\ cpc' = [cpc EXCEPT ![g] = "read"]
              /\ UNCHANGED cconn
    /\ UNCHANGED <<cfgVars, reconnVars, hookVars, raiseVars, pauseVars, retryVars, wsVars, appVars, revVars, netVars, cdrop, sendVars,
                   qVars, obsVars>>

\* consumer, ReadMessage returns a message and the consumer calls the message
\* handler itself: it reads the next message when the handler has returned.
consumer_readOKInline(g) ==
    /\ Running
    /\ cpc[g] = "read"
    /\ connOpen[cconn[g]]
    /\ \A i \in Reads : hpc[i] \in {"none", "returned"}
    /\ cpc' = [cpc EXCEPT ![g] = "loop"]
    /\ IF nread < tracked
         THEN /\ nread' = nread + 1
              /\ hpc' = [hpc EXCEPT ![nread + 1] = "spawned"]
         ELSE UNCHANGED <<nread, hpc>>
    /\ UNCHANGED <<cfgVars, reconnVars, tracked, hookCalls, raiseVars, pauseVars, retryVars, wsVars, appVars, revVars, netVars, cconn, cdrop,
                   sendVars, qVars, obsVars>>

\* consumer, ReadMessage returns a message (src/unnamed/part_001:38,55-61): the
\* message handler runs in a goroutine of its own.
consumer_readOK(g) ==
    /\ Running
    /\ cpc[g] = "read"
    /\ connOpen[cconn[g]]
    /\ cpc' = [cpc EXCEPT ![g] = "loop"]
    /\ IF nread < tracked
         THEN /\ nread' = nread + 1
              /\ hpc' = [hpc EXCEPT ![nread + 1] = "spawned"]
         ELSE UNCHANGED <<nread, hpc>>
    /\ UNCHANGED <<cfgVars, reconnVars, tracked, hookCalls, raiseVars, pauseVars, retryVars, wsVars, appVars, revVars, netVars, cconn, cdrop,
                   sendVars, qVars, obsVars>>

\* A message handler goroutine calls the handler (src/unnamed/part_001:57-59).
messageHandler_call(i) ==
    /\ Running
    /\ hpc[i] = "spawned"
    /\ hpc' = [hpc EXCEPT ![i] = "running"]
    /\ hookCalls' = Append(hookCalls, i)
    /\ UNCHANGED <<cfgVars, reconnVars, tracked, nread, raiseVars, pauseVars, retryVars, wsVars, appVars, revVars, netVars,
                   consVars, sendVars, qVars, obsVars>>

\* The handler returns and its goroutine ends (src/unnamed/part_001:59-61); a
\* handler that blocks never takes this step.
messageHandler_return(i) ==
    /\ Running
    /\ hpc[i] = "running"
    /\ hpc' = [hpc EXCEPT ![i] = "returned"]
    /\ UNCHANGED <<cfgVars, reconnVars, tracked, nread, hookCalls, raiseVars, pauseVars, retryVars, wsVars, appVars, revVars, netVars,
                   consVars, sendVars, qVars, obsVars>>

\* consumer, ReadMessage fails (src/unnamed/part_001:38-49): the connection was
\* closed locally, or the transport fails (deadline, reset).
consumer_readFail(g) ==
    /\ Running
    /\ cpc[g] = "read"
    /\ \/ /\ ~connOpen[cconn[g]]
          /\ UNCHANGED faults
       \/ /\ connOpen[cconn[g]]
          /\ faults < MaxFaults
          /\ faults' = faults + 1
    /\ cpc' = [cpc EXCEPT ![g] = "raise"]
    /\ UNCHANGED <<cfgVars, reconnVars, hookVars, raiseVars, pauseVars, retryVars, wsVars, appVars, revVars, connOpen, gen, dialFails,
                   cconn, cdrop, sendVars, qVars, obsVars>>

\* consumer, ReadMessage meets a close frame of the peer: the close handler
\* (src/unnamed/part_003:104-107) starts a send on the drop channel that is the
\* field now, and waits for a receiver.
consumer_peerClose(g) ==
    /\ Running
    /\ cpc[g] = "read"
    /\ connOpen[cconn[g]]
    /\ faults < MaxFaults
    /\ faults' = faults + 1
    /\ cdrop' = [cdrop EXCEPT ![g] = connectionDroppedChannel]
    /\ cpc' = [cpc EXCEPT ![g] = "notify"]
    /\ UNCHANGED <<cfgVars, reconnVars, hookVars, raiseVars, pauseVars, retryVars, wsVars, appVars, revVars, connOpen, gen, dialFails,
                   cconn, sendVars, qVars, obsVars>>

\* consumer, the send of the close handler is received by the reviver
\* (src/unnamed/part_003:105 and 73); ReadMessage then returns the close error.
consumer_closeNotified(g) ==
    /\ Running
    /\ cpc[g] = "notify"
    /\ reviver_receiveDrop(cdrop[g])
    /\ cdrop' = [cdrop EXCEPT ![g] = 0]
    /\ cpc' = [cpc EXCEPT ![g] = "raise"]
    /\ UNCHANGED <<cfgVars, reconnVars, hookVars, raiseVars, pauseVars, retryVars, wsVars, appVars, retries, attempt, rconn, initial,
                   netVars, cconn, sendVars, qVars, obsVars>>

\* consumer, flagging the drop and going on with its loop.
consumer_raiseAndGoOn(g) ==
    /\ Running
    /\ cpc[g] = "raise"
    /\ handleConnectionError
    /\ craises' = [craises EXCEPT ![g] = @ + 1]
    /\ cpc' = [cpc EXCEPT ![g] = "loop"]
    /\ UNCHANGED <<cfgVars, reconnVars, hookVars, sraises, pauseVars, retryVars, wsVars, appVars, retries, attempt, rconn, initial,
                   netVars, cconn, cdrop, sendVars, qVars, obsVars>>

\* consumer, flagging the drop and returning (src/unnamed/part_001:48-52).
consumer_raise(g) ==
    /\ Running
    /\ cpc[g] = "raise"
    /\ handleConnectionError
    /\ craises' = [craises EXCEPT ![g] = @ + 1]
    /\ cpc' = [cpc EXCEPT ![g] = "done"]
    /\ cconn' = [cconn EXCEPT ![g] = 0]
    /\ UNCHANGED <<cfgVars, reconnVars, hookVars, sraises, pauseVars, retryVars, wsVars, appVars, retries, attempt, rconn, initial,
                   netVars, cdrop, sendVars, qVars, obsVars>>

\* --------------------------------------------------------------- the queue
\* unPop (src/queue.go:42-44): a handleInput goroutine on the primary input
\* channel; it is not sending yet.
unPop(m) ==
    loc' = [loc EXCEPT ![m] = "primaryStart"]

\* handleInput on the primary channel (src/queue.go:123-137): past the first
\* select, the goroutine is a sender on the channel; after a shutdown it
\* returns and the entry is gone.
handleInput_primary(m) ==
    /\ Running
    /\ loc[m] = "primaryStart"
    /\ loc' = [loc EXCEPT ![m] = IF qstop = "closed" THEN "dropped" ELSE "primary"]
    /\ UNCHANGED <<cfgVars, reconnVars, hookVars, raiseVars, pauseVars, retryVars, wsVars, appVars, revVars, netVars, consVars,
                   sendVars, qpc, qentry, qstop, pausers, resumers, obsVars>>

\* handleInput, a goroutine blocked in its sending select returns on a
\* shutdown (src/queue.go:132-135).
handleInput_stopped(m) ==
    /\ Running
    /\ loc[m] \in {"primary", "secondary"}
    /\ qstop = "closed"
    /\ loc' = [loc EXCEPT ![m] = "dropped"]
    /\ UNCHANGED <<cfgVars, reconnVars, hookVars, raiseVars, pauseVars, retryVars, wsVars, appVars, revVars, netVars, consVars,
                   sendVars, qpc, qentry, qstop, pausers, resumers, obsVars>>

\* shutdown (src/queue.go:117-120): close the stop channel of the queue.
shutdown ==
    /\ Running
    /\ qstop = "open"
    /\ qstop' = "closed"
    /\ UNCHANGED <<cfgVars, reconnVars, hookVars, raiseVars, pauseVars, retryVars, wsVars, appVars, revVars, netVars, consVars,
                   sendVars, loc, qpc, qentry, pausers, resumers, obsVars>>

\* The messages the queue holds: pushed or requeued and not yet popped.
queued ==
    {m \in Msgs : loc[m] \in {"secondary", "primaryStart", "primary", "hand"}}

\* pause (src/queue.go:47-49), the receiving half in run or writeOutput: the
\* caller of BlockSend returns.
pause_received ==
    /\ pausers > 0
    /\ pausers' = pausers - 1
    /\ blockCall' = "paused"
    /\ heldAtPause' = queued

\* The cases of run's selects (src/queue.go:59-102) and of writeOutput's
\* (src/queue.go:141-173) that do not take an entry: stop and pause.
run_stopOrPause(paused) ==
    \/ /\ qstop = "closed"
       /\ qpc' = "dead"
       /\ UNCHANGED <<pausers, blockCall, heldAtPause>>
    \/ /\ pause_received
       /\ qpc' = paused

\* run takes entry m from an input channel and calls writeOutput
\* (src/queue.go:72-75, 92-101).
run_take(m) ==
    /\ loc' = [loc EXCEPT ![m] = "hand"]
    /\ qentry' = m
    /\ qpc' = "output"

\* run, the outer select (src/queue.go:59-78): stop, pause or a primary entry
\* when one of them is ready, the default case otherwise.
run_outer ==
    /\ qpc = "outer"
    /\ \/ /\ run_stopOrPause("await")
          /\ UNCHANGED <<loc, qentry>>
       \/ /\ \E m \in Msgs : loc[m] = "primary" /\ run_take(m)
          /\ UNCHANGED <<pausers, blockCall, heldAtPause>>
       \/ /\ qstop = "open" /\ pausers = 0
          /\ \A m \in Msgs : loc[m] # "primary"
          /\ qpc' = "inner"
          /\ UNCHANGED <<loc, qentry, pausers, blockCall, heldAtPause>>

\* run, the inner select (src/queue.go:79-102): blocks for stop, pause, a
\* primary or a secondary entry.
run_inner ==
    /\ qpc = "inner"
    /\ \/ /\ run_stopOrPause("await")
          /\ UNCHANGED <<loc, qentry>>
       \/ /\ \E m \in Msgs : loc[m] \in {"primary", "secondary"} /\ run_take(m)
          /\ UNCHANGED <<pausers, blockCall, heldAtPause>>

\* writeOutput, the cases other than the hand-over (src/queue.go:141-173): a
\* shutdown ends run with the entry in hand, a pause waits for the resume.
writeOutput_stopOrPause ==
    /\ qpc = "output"
    /\ run_stopOrPause("awaitOutput")
    /\ loc' = IF qpc' = "dead" THEN [loc EXCEPT ![qentry] = "dropped"] ELSE loc
    /\ qentry' = IF qpc' = "dead" THEN 0 ELSE qentry

\* awaitResume returning at once, whether resume was called or not.
awaitResumeNotWaiting ==
    /\ qpc \in {"await", "awaitOutput"}
    /\ qpc' = IF qpc = "await" THEN "outer" ELSE "output"
    /\ UNCHANGED <<loc, qentry, resumers, blockCall>>

\* awaitResume (src/queue.go:108-115), called by run or by writeOutput: the
\* receiving half of resume (src/queue.go:52-54), whose caller returns, or
\* the stop.
awaitResume ==
    /\ qpc \in {"await", "awaitOutput"}
    /\ \/ /\ resumers > 0
          /\ resumers' = resumers - 1
          /\ blockCall' = "none"
          /\ qpc' = IF qpc = "await" THEN "outer" ELSE "output"
          /\ UNCHANGED <<loc, qentry>>
       \/ /\ qstop = "closed"
          /\ qpc' = "dead"
          /\ loc' = IF qentry # 0 THEN [loc EXCEPT ![qentry] = "dropped"] ELSE loc
          /\ qentry' = 0
          /\ UNCHANGED <<resumers, blockCall>>

\* The steps queue.run takes on its own.
run ==
    /\ Running
    /\ \/ /\ run_outer
          /\ UNCHANGED resumers
       \/ /\ run_inner
          /\ UNCHANGED resumers
       \/ /\ writeOutput_stopOrPause
          /\ UNCHANGED resumers
       \/ /\ awaitResume
          /\ UNCHANGED <<pausers, heldAtPause>>
    /\ UNCHANGED <<cfgVars, reconnVars, hookVars, raiseVars, retryVars, wsVars, appVars, revVars, netVars, consVars,
                   sendVars, qstop, blockCount, obsVars>>

\* BlockSend (src/unnamed/part_002:117-120) is queue.pause
\* (src/queue.go:47-49): the caller blocks in a send on the pause channel.
BlockSend ==
    /\ Running
    /\ blockCall = "none"
    /\ blockCount < MaxPauses
    /\ blockCall' = "pausing"
    /\ blockCount' = blockCount + 1
    /\ pausers' = pausers + 1
    /\ UNCHANGED <<cfgVars, reconnVars, hookVars, raiseVars, retryVars, wsVars, appVars, revVars, netVars, consVars,
                   sendVars, loc, qpc, qentry, qstop, resumers, heldAtPause,
                   obsVars>>

\* UnblockSend (src/unnamed/part_002:122-125) is queue.resume
\* (src/queue.go:52-54): the caller blocks in a send on the resume channel.
\* The application calls it after BlockSend has returned.
UnblockSend ==
    /\ Running
    /\ blockCall = "paused"
    /\ blockCall' = "resuming"
    /\ resumers' = resumers + 1
    /\ UNCHANGED <<cfgVars, reconnVars, hookVars, raiseVars, retryVars, wsVars, appVars, revVars, netVars, consVars,
                   sendVars, loc, qpc, qentry, qstop, pausers, blockCount,
                   heldAtPause, obsVars>>

\* UnblockSend (src/unnamed/part_002:122-125, src/queue.go:52-54) by an
\* application that has not blocked the sending: the caller blocks in the
\* same send on the resume channel.
UnblockSend_notBlocked ==
    /\ Running
    /\ blockCall = "none"
    /\ blockCall' = "resuming"
    /\ resumers' = resumers + 1
    /\ UNCHANGED <<cfgVars, reconnVars, hookVars, raiseVars, retryVars, wsVars, appVars, revVars, netVars, consVars,
                   sendVars, loc, qpc, qentry, qstop, pausers, blockCount,
                   heldAtPause, obsVars>>


\* -------------------------------------------------------------- the sender
\* sender, entering its select (src/sender.go:15-19): the stop channel waited
\* on is the field as it is now.
sender_enter(g) ==
    /\ Running
    /\ spc[g] = "enter"
    /\ sstop' = [sstop EXCEPT ![g] = senderStopChannel]
    /\ spc' = [spc EXCEPT ![g] = "select"]
    /\ UNCHANGED <<cfgVars, reconnVars, hookVars, raiseVars, pauseVars, retryVars, wsVars, appVars, revVars, netVars, consVars, sconn,
                   smsg, qVars, obsVars>>

\* sender, the stop case (src/sender.go:19-20): the channel waited on has
\* been closed.
sender_stopped(g) ==
    /\ Running
    /\ spc[g] = "select"
    /\ sstop[g] # 0
    /\ sstop[g] # senderStopChannel
    /\ spc' = [spc EXCEPT ![g] = "done"]
    /\ sstop' = [sstop EXCEPT ![g] = 0]
    /\ UNCHANGED <<cfgVars, reconnVars, hookVars, raiseVars, pauseVars, retryVars, wsVars, appVars, revVars, netVars, consVars, sconn,
                   smsg, qVars, obsVars>>

\* sender, the message case (src/sender.go:23-31) with the hand-over of
\* writeOutput (src/queue.go:159-160): the entry run holds goes to the sender,
\* which resolves the connection; with none it requeues the entry and returns.
sender_pop(g) ==
    /\ Running
    /\ spc[g] = "select"
    /\ qpc = "output"
    /\ qpc' = "outer"
    /\ qentry' = 0
    /\ sstop' = [sstop EXCEPT ![g] = 0]
    /\ IF getConnection = 0
         THEN /\ unPop(qentry)
              /\ spc' = [spc EXCEPT ![g] = "done"]
              /\ UNCHANGED <<sconn, smsg>>
         ELSE /\ loc' = [loc EXCEPT ![qentry] = "sender"]
              /\ smsg' = [smsg EXCEPT ![g] = qentry]
              /\ sconn' = [sconn EXCEPT ![g] = getConnection]
              /\ spc' = [spc EXCEPT ![g] = "write"]
    /\ UNCHANGED <<cfgVars, reconnVars, hookVars, raiseVars, pauseVars, retryVars, wsVars, appVars, revVars, netVars, consVars,
                   qstop, pausers, resumers, obsVars>>

\* sender, the ping case treating a missing connection as a failed write.
sender_pingFailingOnAbsent(g) ==
    /\ Running
    /\ spc[g] = "select"
    /\ sstop' = [sstop EXCEPT ![g] = 0]
    /\ IF getConnection = 0
         THEN /\ spc' = [spc EXCEPT ![g] = "failed"]
              /\ UNCHANGED sconn
         ELSE /\ sconn' = [sconn EXCEPT ![g] = getConnection]
              /\ spc' = [spc EXCEPT ![g] = "write"]
    /\ UNCHANGED <<cfgVars, reconnVars, hookVars, raiseVars, pauseVars, retryVars, wsVars, appVars, revVars, netVars, consVars, smsg,
                   qVars, obsVars>>

\* sender, the ping case (src/sender.go:48-55): resolve the connection and
\* return when there is none.
sender_ping(g) ==
    /\ Running
    /\ spc[g] = "select"
    /\ sstop' = [sstop EXCEPT ![g] = 0]
    /\ IF getConnection = 0
         THEN /\ spc' = [spc EXCEPT ![g] = "done"]
              /\ UNCHANGED sconn
         ELSE /\ sconn' = [sconn EXCEPT ![g] = getConnection]
              /\ spc' = [spc EXCEPT ![g] = "write"]
    /\ UNCHANGED <<cfgVars, reconnVars, hookVars, raiseVars, pauseVars, retryVars, wsVars, appVars, revVars, netVars, consVars, smsg,
                   qVars, obsVars>>

\* sender, WriteMessage succeeds and the sender drains the queue: after a
\* message it takes the next one that is ready without going through its
\* select.
sender_writeOKDraining(g) ==
    /\ Running
    /\ spc[g] = "write"
    /\ connOpen[sconn[g]]
    /\ IF smsg[g] # 0 /\ qpc = "output"
         THEN /\ loc' = [loc EXCEPT ![smsg[g]] = "written", ![qentry] = "sender"]
              /\ smsg' = [smsg EXCEPT ![g] = qentry]
              /\ qpc' = "outer"
              /\ qentry' = 0
              /\ written' = Append(written, smsg[g])
              /\ lastFailed' = IF lastFailed = smsg[g] THEN 0 ELSE lastFailed
              /\ UNCHANGED <<spc, sconn>>
         ELSE /\ spc' = [spc EXCEPT ![g] = "enter"]
              /\ sconn' = [sconn EXCEPT ![g] = 0]
              /\ smsg' = [smsg EXCEPT ![g] = 0]
              /\ IF smsg[g] # 0
                   THEN /\ loc' = [loc EXCEPT ![smsg[g]] = "written"]
                        /\ written' = Append(written, smsg[g])
                        /\ lastFailed' = IF lastFailed = smsg[g] THEN 0 ELSE lastFailed
                   ELSE UNCHANGED <<loc, written, lastFailed>>
              /\ UNCHANGED <<qpc, qentry>>
    /\ UNCHANGED <<cfgVars, reconnVars, hookVars, raiseVars, pauseVars, retryVars, wsVars, appVars, revVars, netVars, consVars, sstop,
                   qstop, pausers, resumers, initialDials, initialSleeps,
                   connectedCalls, disconnectedCalls, panicked>>

\* sender, WriteMessage succeeds (src/sender.go:34-38, 58-62): the loop goes on.
sender_writeOK(g) ==
    /\ Running
    /\ spc[g] = "write"
    /\ connOpen[sconn[g]]
    /\ spc' = [spc EXCEPT ![g] = "enter"]
    /\ sconn' = [sconn EXCEPT ![g] = 0]
    /\ smsg' = [smsg EXCEPT ![g] = 0]
    /\ IF smsg[g] # 0
         THEN /\ loc' = [loc EXCEPT ![smsg[g]] = "written"]
              /\ written' = Append(written, smsg[g])
              /\ lastFailed' = IF lastFailed = smsg[g] THEN 0 ELSE lastFailed
         ELSE UNCHANGED <<loc, written, lastFailed>>
    /\ UNCHANGED <<cfgVars, reconnVars, hookVars, raiseVars, pauseVars, retryVars, wsVars, appVars, revVars, netVars, consVars, sstop,
                   qpc, qentry, qstop, pausers, resumers, initialDials, initialSleeps,
                   connectedCalls, disconnectedCalls, panicked>>

\* sender, WriteMessage fails and the message is not requeued.
sender_writeFailDropping(g) ==
    /\ Running
    /\ spc[g] = "write"
    /\ \/ /\ ~connOpen[sconn[g]]
          /\ UNCHANGED faults
       \/ /\ connOpen[sconn[g]]
          /\ faults < MaxFaults
          /\ faults' = faults + 1
    /\ spc' = [spc EXCEPT ![g] = "failed"]
    /\ sconn' = [sconn EXCEPT ![g] = 0]
    /\ smsg' = [smsg EXCEPT ![g] = 0]
    /\ lastFailed' = IF smsg[g] # 0 THEN smsg[g] ELSE lastFailed
    /\ UNCHANGED <<cfgVars, reconnVars, hookVars, raiseVars, pauseVars, retryVars, wsVars, appVars, revVars, connOpen, gen, dialFails,
                   consVars, sstop, loc, qpc, qentry, qstop, pausers, resumers,
                   initialDials, initialSleeps, connectedCalls, disconnectedCalls,
                   written, panicked>>

\* sender, WriteMessage fails (src/sender.go:35-42, 59-64): the connection was
\* closed locally, or the transport fails; a message is requeued.
sender_writeFail(g) ==
    /\ Running
    /\ spc[g] = "write"
    /\ \/ /\ ~connOpen[sconn[g]]
          /\ UNCHANGED faults
       \/ /\ connOpen[sconn[g]]
          /\ faults < MaxFaults
          /\ faults' = faults + 1
    /\ spc' = [spc EXCEPT ![g] = "failed"]
    /\ sconn' = [sconn EXCEPT ![g] = 0]
    /\ smsg' = [smsg EXCEPT ![g] = 0]
    /\ IF smsg[g] # 0
         THEN /\ unPop(smsg[g])
              /\ lastFailed' = smsg[g]
         ELSE UNCHANGED <<loc, lastFailed>>
    /\ UNCHANGED <<cfgVars, reconnVars, hookVars, raiseVars, pauseVars, retryVars, wsVars, appVars, revVars, connOpen, gen, dialFails,
                   consVars, sstop, qpc, qentry, qstop, pausers, resumers,
                   initialDials, initialSleeps, connectedCalls, disconnectedCalls,
                   written, panicked>>

\* sender, after a failed write (src/sender.go:43-45, 65-67): stop the sender,
\* flag the drop and return.
sender_failed(g) ==
    /\ Running
    /\ spc[g] = "failed"
    /\ stopSender
    /\ handleConnectionError
    /\ sraises' = [sraises EXCEPT ![g] = @ + 1]
    /\ spc' = [spc EXCEPT ![g] = "done"]
    /\ UNCHANGED <<cfgVars, reconnVars, hookVars, craises, pauseVars, retryVars, connected, connection, stopChannel,
                   consumerStopChannel, consumerStopClosed,
                   connectionDroppedChannel, appVars, retries, attempt, rconn,
                   initial, netVars, consVars, sconn, sstop, smsg, qVars, obsVars>>

\* ------------------------------------------------------------ specification
\* The reviver, from Connect on, but for its stop case.
Reviver ==
    \/ Connect
    \/ connect_dialOK
    \/ connect_dialFail
    \/ connect_sleep
    \/ reviver_initialError
    \/ setConnection_install
    \/ setConnection_connected
    \/ setConnection_start
    \/ reviver_initialOK
    \/ reviver_select
    \/ clearConnection_stop
    \/ clearConnection_close

\* The pumps, but for the two sources of the sender's writes.
Pumps ==
    \/ \E g \in Gens : consumer_start(g)
    \/ \E g \in Gens : consumer_loop(g)
    \/ \E g \in Gens : consumer_readOK(g)
    \/ \E g \in Gens : consumer_readFail(g)
    \/ \E g \in Gens : consumer_peerClose(g)
    \/ \E g \in Gens : consumer_closeNotified(g)
    \/ \E g \in Gens : consumer_raise(g)
    \/ \E g \in Gens : sender_enter(g)
    \/ \E g \in Gens : sender_stopped(g)
    \/ \E g \in Gens : sender_writeOK(g)
    \/ \E g \in Gens : sender_writeFail(g)
    \/ \E g \in Gens : sender_failed(g)

\* The client with an application that connects and disconnects and sends
\* nothing: the sender writes pings only.
Next ==
    \/ Reviver
    \/ connect_getDialerFail
    \/ reviver_stop
    \/ Pumps
    \/ Disconnect
    \/ \E g \in Gens : sender_ping(g)

Spec == Init /\ [][Next]_vars

\* The client with an application that connects and sends and never
\* disconnects, and a ping interval longer than the run.  The application
\* does not retry the initial connection, and configures either no cap on the
\* attempts (0) or a cap of one.
InitSend ==
    /\ Init
    /\ ConnectionRetries \in {0, 1}
    /\ RetryInitialConnection = FALSE
    /\ URL = "valid"

NextSend ==
    \/ Reviver
    \/ Pumps
    \/ \E m \in Msgs : Send(m)
    \/ \E m \in Msgs : handleInput_primary(m)
    \/ run
    \/ \E g \in Gens : sender_pop(g)

SpecSend == InitSend /\ [][NextSend]_vars

\* The client with an application that connects, sends, and blocks and
\* unblocks the sending, in front of a dialer that never refuses: no cap on
\* the attempts, no retry of the initial connection, no ping in the run.
InitQueue ==
    /\ Init
    /\ ConnectionRetries = 0
    /\ RetryInitialConnection = FALSE
    /\ URL = "valid"

NextQueue ==
    \/ Connect
    \/ connect_dialOK
    \/ setConnection_install
    \/ setConnection_connected
    \/ setConnection_start
    \/ reviver_initialOK
    \/ reviver_select
    \/ clearConnection_stop
    \/ clearConnection_close
    \/ Pumps
    \/ \E m \in Msgs : Send(m)
    \/ \E m \in Msgs : handleInput_primary(m)
    \/ run
    \/ \E g \in Gens : sender_pop(g)
    \/ BlockSend
    \/ UnblockSend

SpecQueue == InitQueue /\ [][NextQueue]_vars

\* The client with an application that connects and sends, a ping ticker that
\* fires, and a dialer that never refuses: both sources of the sender's
\* writes, and the reads of the consumer.
NextPump ==
    \/ Connect
    \/ connect_dialOK
    \/ setConnection_install
    \/ setConnection_connected
    \/ setConnection_start
    \/ reviver_initialOK
    \/ reviver_select
    \/ clearConnection_stop
    \/ clearConnection_close
    \/ Pumps
    \/ \E m \in Msgs : Send(m)
    \/ \E m \in Msgs : handleInput_primary(m)
    \/ run
    \/ \E g \in Gens : sender_pop(g)
    \/ \E g \in Gens : sender_ping(g)

SpecPump == InitQueue /\ [][NextPump]_vars

\* The sender of a connection that does not fail, with an application that
\* keeps sending and a ping ticker that keeps firing.  A Go select with
\* several ready cases picks one of them at random, so that a case that is
\* ready again and again is taken: strong fairness for the message and the
\* ping case of the sender, and for each of the goroutines that offer an
\* entry to queue.run.  The other steps are taken when they can be.
NextFair ==
    \/ Connect
    \/ connect_dialOK
    \/ setConnection_install
    \/ setConnection_connected
    \/ setConnection_start
    \/ reviver_initialOK
    \/ reviver_select
    \/ \E g \in Gens : consumer_start(g)
    \/ \E g \in Gens : consumer_loop(g)
    \/ \E g \in Gens : consumer_readOK(g)
    \/ \E g \in Gens : sender_enter(g)
    \/ \E g \in Gens : sender_pop(g)
    \/ \E g \in Gens : sender_ping(g)
    \/ \E g \in Gens : sender_writeOK(g)
    \/ \E m \in Msgs : Send(m)
    \/ \E m \in Msgs : Send_again(m)
    \/ run

FairPump ==
    /\ \A g \in Gens : WF_vars(sender_enter(g))
    /\ \A g \in Gens : WF_vars(sender_writeOK(g))
    /\ \A g \in Gens : SF_vars(sender_pop(g))
    /\ \A g \in Gens : SF_vars(sender_ping(g))
    /\ WF_vars(run)
    /\ \A m \in Msgs : SF_vars(run /\ qentry' = m)

SpecFair == InitQueue /\ [][NextFair]_vars /\ FairPump

\* The consumers of a client whose peer sends messages, with the goroutines
\* of the message handler followed for the first MaxReads messages; the
\* dialer never refuses and the senders are left out.
InitRead ==
    /\ ConnectionRetries = 0
    /\ RetryInitialConnection = FALSE
    /\ URL = "valid"
    /\ ConnectionRetryFactor = <<2, 1>>
    /\ ConnectionRetryTimeoutMin = 1
    /\ ConnectionRetryTimeoutMax = 5
    /\ ConnectionRetryRandomize = FALSE
    /\ New
    /\ tracked = MaxReads

NextRead ==
    \/ Connect
    \/ connect_dialOK
    \/ setConnection_install
    \/ setConnection_connected
    \/ setConnection_start
    \/ reviver_initialOK
    \/ reviver_select
    \/ clearConnection_stop
    \/ clearConnection_close
    \/ \E g \in Gens : consumer_start(g)
    \/ \E g \in Gens : consumer_loop(g)
    \/ \E g \in Gens : consumer_readOK(g)
    \/ \E g \in Gens : consumer_readFail(g)
    \/ \E g \in Gens : consumer_peerClose(g)
    \/ \E g \in Gens : consumer_closeNotified(g)
    \/ \E g \in Gens : consumer_raise(g)
    \/ \E i \in Reads : messageHandler_call(i)
    \/ \E i \in Reads : messageHandler_return(i)

SpecRead == InitRead /\ [][NextRead]_vars

\* The send queue with its users and a shutdown: an application that sends,
\* blocks and unblocks the sending, the sender of the first connection, whose
\* writes may fail, and a caller of shutdown.
NextShutdown ==
    \/ Connect
    \/ connect_dialOK
    \/ setConnection_install
    \/ setConnection_connected
    \/ setConnection_start
    \/ reviver_initialOK
    \/ reviver_select
    \/ \E g \in Gens : sender_enter(g)
    \/ \E g \in Gens : sender_pop(g)
    \/ \E g \in Gens : sender_writeOK(g)
    \/ \E g \in Gens : sender_writeFail(g)
    \/ \E g \in Gens : sender_failed(g)
    \/ \E m \in Msgs : Send(m)
    \/ \E m \in Msgs : handleInput_primary(m)
    \/ \E m \in Msgs : handleInput_stopped(m)
    \/ run
    \/ BlockSend
    \/ UnblockSend
    \/ shutdown

SpecShutdown == InitQueue /\ [][NextShutdown]_vars

\* The client with an application that connects and calls Reconnect, and
\* never disconnects or sends; the dialer never refuses.
NextReconnect ==
    \/ Connect
    \/ connect_dialOK
    \/ setConnection_install
    \/ setConnection_connected
    \/ setConnection_start
    \/ reviver_initialOK
    \/ reviver_select
    \/ clearConnection_stop
    \/ clearConnection_close
    \/ Pumps
    \/ \E g \in Gens : sender_ping(g)
    \/ Reconnect_check
    \/ Reconnect_close

SpecReconnect == InitQueue /\ [][NextReconnect]_vars

\* The send queue with its users and a shutdown, and an application that may
\* call UnblockSend without having called BlockSend.
NextBlock ==
    \/ NextShutdown
    \/ UnblockSend_notBlocked

SpecBlock == InitQueue /\ [][NextBlock]_vars

\* The retry delays of a client, for a range of configurations: delays of a
\* few nanoseconds, where the conversion to int64 shows, and those of the
\* 100 / 500 / factor 2 example; factors 1/2, 1, 3/2 and 2.
InitRetry ==
    /\ ConnectionRetries = 0
    /\ RetryInitialConnection = TRUE
    /\ URL = "valid"
    /\ ConnectionRetryFactor \in {<<1, 2>>, <<1, 1>>, <<3, 2>>, <<2, 1>>}
    /\ ConnectionRetryTimeoutMin \in {1, 3, 100}
    /\ ConnectionRetryTimeoutMax \in {2, 10, 500}
    /\ ConnectionRetryRandomize \in BOOLEAN
    /\ New
    /\ tracked = 0

NextRetry ==
    getRetryDuration_call

SpecRetry == InitRetry /\ [][NextRetry]_vars


\* ------------------------------------------------------------------ claims
\* No goroutine that could raise a drop is left: every pump that was started
\* has returned.
AllPumpsReturned ==
    \A g \in Gens : cpc[g] \in {"none", "done"} /\ spc[g] \in {"none", "done"}

\* The reviver waits in its select for a stop that was not requested and for
\* a drop that no goroutine is left to raise: the client stays like this.
Stranded ==
    /\ rpc = "select"
    /\ stopChannel = "open"
    /\ AllPumpsReturned

\* C1: every message passed to Send is eventually written to some connection.
\* Stated on the states a run can end in: the client is never stranded (no
\* sender left, no reconnect to come) while a message that was passed to Send
\* is not written.
C1_NoMessageStranded ==
    ~(Stranded /\ \E m \in Msgs : loc[m] \notin {"unsent", "written"})

\* C2: a message whose write failed and was requeued is the next message
\* written: while such a message is outstanding, a step that writes a message
\* writes that one.
C2_RequeuedIsNextWritten ==
    [][(lastFailed # 0 /\ Len(written') > Len(written))
          => written'[Len(written')] = lastFailed]_vars

\* C3: with no write failure (no transport failure, no teardown), no pause and
\* no shutdown, the messages are written in the order they were pushed: the
\* application pushes 1, 2, ..., each Send returning before the next.
C3_WrittenInPushOrder ==
    (faults = 0 /\ disconnectedCalls = 0) =>
        \A i, j \in 1..Len(written) : i < j => written[i] < written[j]

\* C4: after a drop the reviver redials without an attempt cap: connect(true)
\* never comes back without a connection.
C4_RedialHasNoCap ==
    (~initial /\ rpc = "install") => rconn # 0

\* C5: every failure of a live generation reaches the reviver: the client is
\* never left waiting for a drop with every pump of the generation gone.
C5_FailureReachesReviver ==
    ~Stranded

\* C6: at most one read pump and one write pump run against a connection: no
\* two senders are in WriteMessage, and no two consumers in ReadMessage, on
\* the same connection.
C6_OnePumpPerConnection ==
    \A g, h \in Gens :
        g # h =>
            /\ ~(spc[g] = "write" /\ spc[h] = "write" /\ sconn[g] = sconn[h])
            /\ ~(cpc[g] = "read" /\ cpc[h] = "read" /\ cconn[g] = cconn[h])

\* C7: Disconnect is a terminal shutdown from any state: once it has been
\* called, the reviver never waits in its loop with no stop signal to see.
C7_DisconnectIsTerminal ==
    (disconnectCalls > 0 /\ rpc = "select") => stopChannel = "closed"

\* C8: calling Disconnect twice in a row, or before any connection, does not
\* fail: it never closes the closed stop channel.
C8_DisconnectTwiceIsSafe ==
    panicked # "close of closed channel"

\* C9: with initial retries enabled, ConnectionRetries = N > 0 and a dialer
\* (the URL parses, so that there is one) whose attempts fail, a Connect that
\* returns an error made exactly N dial attempts, and the reviver is gone.
C9_InitialConnectMakesNAttempts ==
    (/\ URL = "valid"
     /\ RetryInitialConnection
     /\ ConnectionRetries > 0
     /\ connectCall = "error")
        => (initialDials = ConnectionRetries /\ rpc = "done")

C9_Witness ==
    /\ URL = "valid"
    /\ RetryInitialConnection
    /\ ConnectionRetries = 2
    /\ connectCall = "error"
    /\ initialDials = 2

\* C10: with initial retries disabled and a dialer to dial with (the URL
\* parses), Connect makes one dial attempt whatever
\* ConnectionRetries is and never sleeps; when the attempt fails Connect
\* returns the error and the reviver is gone.
C10_NoRetryMakesOneAttempt ==
    (URL = "valid" /\ ~RetryInitialConnection) =>
        /\ initialDials <= 1
        /\ initialSleeps = 0
        /\ connectCall \in {"nil", "error"} => initialDials = 1
        /\ connectCall = "error" => rpc = "done"

C10_Witness ==
    /\ URL = "valid"
    /\ ~RetryInitialConnection
    /\ ConnectionRetries = 0
    /\ connectCall = "error"
    /\ initialDials = 1

\* C11: in every generation the connected handler has been called, and has
\* returned, before the consumer and the sender of that generation are
\* started, so that no read and no write on the connection of a generation
\* precedes the connected handler of that generation.  The handler of
\* generation g is the g-th call of the connected handler.
C11_ConnectedHookBeforeTraffic ==
    \A g \in Gens :
        /\ (cpc[g] # "none" \/ spc[g] # "none") => connectedCalls >= g
        /\ spc[g] = "write" => connectedCalls >= sconn[g]
        /\ cpc[g] = "read" => connectedCalls >= cconn[g]

\* C12: the disconnected handler of a generation is called only after the
\* connection of the generation has been closed and its two pumps have
\* stopped for good: once the handler of generation g has been called (the
\* g-th call), connection g is closed and the pumps started for generation g
\* are in no read and no write on a connection that is open.
C12_DisconnectedHookAfterPumps ==
    \A g \in Gens :
        disconnectedCalls >= g =>
            /\ ~connOpen[g]
            /\ ~(spc[g] = "write" /\ connOpen[sconn[g]])
            /\ ~(cpc[g] = "read" /\ connOpen[cconn[g]])

\* A step in which a sender receives an entry from the channel pop returns.
popped ==
    /\ qentry # 0
    /\ qentry' = 0
    /\ qpc' = "outer"

\* C13: while the queue is paused, from the return of BlockSend until
\* UnblockSend is called, no sender receives a message from pop, whatever the
\* queue holds and whatever is pushed or requeued meanwhile.
C13_NoPopWhilePaused ==
    [][blockCall = "paused" => ~popped]_vars

C13_Witness ==
    /\ blockCall = "paused"
    /\ qentry # 0
    /\ \E m \in Msgs : loc[m] = "primary"
    /\ \E g \in Gens : spc[g] = "select"

\* C14: a pause discards nothing and reorders nothing: of the messages the
\* queue held when BlockSend returned, those written are written in the order
\* they were pushed, when no write failed and no connection was torn down.
C14_PauseKeepsOrder ==
    (faults = 0 /\ disconnectedCalls = 0) =>
        \A i, j \in 1..Len(written) :
            (i < j /\ written[i] \in heldAtPause /\ written[j] \in heldAtPause)
                => written[i] < written[j]

\* C15: Connect returns once the initial outcome is known: nil only after a
\* dial has succeeded and the connected handler has been called, an error
\* only when no dial succeeded, and then the connected handler was never
\* called and no pump was ever started.
C15_ConnectReportsInitialOutcome ==
    /\ connectCall = "nil" => (gen >= 1 /\ connectedCalls >= 1)
    /\ connectCall = "error" =>
          /\ gen = 0
          /\ connectedCalls = 0
          /\ \A g \in Gens : cpc[g] = "none" /\ spc[g] = "none"

C15_Witness ==
    /\ connectCall = "nil"
    /\ connectedCalls = 1
    /\ dialFails = 2

\* C16: IsConnected, which returns the connected flag, is true exactly while
\* a connection is installed, from the end of setConnection to the next
\* teardown, and false before the first connection, during a redial and
\* after Disconnect (once the reviver has nothing left to act on).
C16_IsConnectedTracksConnection ==
    /\ connected => connection # 0
    /\ rpc \in {"initOK", "loop", "select"} => connected
    /\ rpc \in {"idle", "dial", "sleep", "initErr", "done"} => ~connected
    /\ (disconnectCalls > 0 /\ stopChannel = "open") => ~connected

\* C19: when the dialer cannot be built from the URL, Connect gets the error
\* after no dial attempt and no sleep, initial retries enabled or not, and
\* never returns nil.
C19_ConfigurationErrorNotRetried ==
    URL = "malformed" =>
        /\ initialDials = 0
        /\ initialSleeps = 0
        /\ dialFails = 0
        /\ connectCall # "nil"
        /\ rpc \in {"idle", "dial", "initErr", "done"}

C19_Witness ==
    /\ URL = "malformed"
    /\ RetryInitialConnection
    /\ connectCall = "error"
    /\ rpc = "done"

\* A step in which the reviver receives a drop and starts a teardown.
dropReceived ==
    /\ rpc = "select"
    /\ rpc' = "clear"
    /\ ~stopping'

\* C20: one failure causes one teardown: the drop the reviver acts on was
\* raised by a pump of the generation that is installed, never by a pump of
\* a generation that was torn down before.
C20_OneTeardownPerFailure ==
    [][dropReceived =>
          \A g \in Gens :
              (cpc[g] # cpc'[g] \/ spc[g] # spc'[g]) => g = connection]_vars

\* C17: with jitter disabled getRetryDuration(attempt) is
\* min(minDelay * factor^attempt, maxDelay), as a whole number of nanoseconds:
\* maxDelay when the product n / d reaches it, otherwise the whole part of
\* the product; with minDelay = 100, maxDelay = 500 and factor 2 the delays of
\* attempts 0, 1, 2, 3 are 100, 200, 400, 500.
C17_RetryDurationFormula ==
    (~ConnectionRetryRandomize /\ retryCall # <<>>) =>
        LET a == retryCall[1]
            delay == retryCall[2]
            n == ConnectionRetryTimeoutMin * Pow(ConnectionRetryFactor[1], a)
            d == Pow(ConnectionRetryFactor[2], a)
        IN  /\ n >= ConnectionRetryTimeoutMax * d
                  => delay = ConnectionRetryTimeoutMax
            /\ n < ConnectionRetryTimeoutMax * d
                  => (delay * d <= n /\ n < (delay + 1) * d)
            /\ (/\ ConnectionRetryTimeoutMin = 100
                 /\ ConnectionRetryTimeoutMax = 500
                 /\ ConnectionRetryFactor = <<2, 1>>
                 /\ a <= 3)
                  => delay = <<100, 200, 400, 500>>[a + 1]

C17_Witness ==
    /\ ~ConnectionRetryRandomize
    /\ ConnectionRetryTimeoutMin = 100
    /\ ConnectionRetryTimeoutMax = 500
    /\ ConnectionRetryFactor = <<2, 1>>
    /\ retryCall = <<3, 500>>

\* C18: the retry delay never exceeds maxDelay, with or without jitter, and
\* with jitter disabled and a factor of at least 1 it does not decrease from
\* one attempt to the next.
C18_RetryDurationCappedMonotone ==
    /\ retryCall # <<>> => retryCall[2] <= ConnectionRetryTimeoutMax
    /\ (~ConnectionRetryRandomize
            /\ ConnectionRetryFactor[1] >= ConnectionRetryFactor[2]) =>
          \A a \in 0..(MaxAttempt - 1) :
              getRetryDuration(a, <<1, 1>>)
                  <= getRetryDuration(a + 1, <<1, 1>>)

C18_Witness ==
    /\ ConnectionRetryRandomize
    /\ ConnectionRetryFactor = <<3, 2>>
    /\ ConnectionRetryTimeoutMin = 3
    /\ ConnectionRetryTimeoutMax = 10
    /\ retryCall = <<2, 10>>

\* C21: raising a drop never blocks the goroutine that raises it, reviver
\* listening or not: the close handler, whose send on the drop channel is the
\* only one that waits, never waits on a channel the reviver has ceased to
\* receive from (the reviver has returned, or has replaced the channel).
C21_RaisingNeverBlocks ==
    \A g \in Gens :
        cpc[g] = "notify" =>
            (rpc # "done" /\ cdrop[g] = connectionDroppedChannel)

\* C22: a message the sender has popped is never discarded: it is in the
\* hands of a sender that is writing it, until the write succeeds or the
\* message is requeued; a message is written at most once, and a written
\* message is not requeued.
C22_PoppedWrittenOrRequeued ==
    /\ \A m \in Msgs :
          /\ loc[m] = "sender" => \E g \in Gens : spc[g] = "write" /\ smsg[g] = m
          /\ loc[m] = "written" <=> \E i \in 1..Len(written) : written[i] = m
    /\ \A i, j \in 1..Len(written) : written[i] = written[j] => i = j

\* A message whose write failed is back in the queue, after another was
\* written.
C22_Witness ==
    /\ lastFailed # 0
    /\ loc[lastFailed] \in {"primaryStart", "primary"}
    /\ Len(written) > 0

\* C23: a pump that finds no connection returns without flagging a drop and
\* without reading or writing: the consumer at its start-up, the sender when
\* its ping ticker fires, and the sender that has popped a message, which it
\* requeues first.
C23_AbsentHandleEndsPump ==
    [][\A g \in Gens :
          /\ (cpc[g] = "start" /\ cpc'[g] # "start" /\ getConnection = 0)
                => /\ cpc'[g] = "done"
                   /\ craises'[g] = craises[g]
                   /\ rpc' = rpc
          /\ (spc[g] = "select" /\ spc'[g] # "select" /\ getConnection = 0)
                => /\ spc'[g] = "done"
                   /\ sraises'[g] = sraises[g]
                   /\ rpc' = rpc
                   /\ (qentry # 0 /\ qentry' = 0) => loc'[qentry] = "primaryStart"
      ]_vars

\* A sender has returned without a call of handleConnectionError, and a
\* message is requeued although no write of a message has failed or succeeded:
\* it was popped with no connection.
C23_Witness ==
    /\ getConnection = 0
    /\ lastFailed = 0
    /\ written = <<>>
    /\ \E m \in Msgs : loc[m] = "primaryStart"
    /\ \E g \in Gens : spc[g] = "done" /\ sraises[g] = 0

\* C24: a pump whose read or write fails calls handleConnectionError exactly
\* once and returns, and reads or writes nothing afterwards; the sender has
\* requeued the message it was writing before it makes the call.
C24_FailureRaisedOnceThenReturn ==
    [][\A g \in Gens :
          /\ (cpc[g] = "raise" /\ cpc'[g] # "raise")
                => cpc'[g] = "done" /\ craises'[g] = 1
          /\ (spc[g] = "failed" /\ spc'[g] # "failed")
                => spc'[g] = "done" /\ sraises'[g] = 1
          /\ craises'[g] # craises[g] => cpc[g] = "raise"
          /\ sraises'[g] # sraises[g] => spc[g] = "failed"
          /\ cpc[g] = "done" => cpc'[g] = "done" /\ craises'[g] = craises[g]
          /\ spc[g] = "done" => spc'[g] = "done" /\ sraises'[g] = sraises[g]
          /\ (spc[g] = "write" /\ spc'[g] = "failed" /\ smsg[g] # 0)
                => loc'[smsg[g]] = "primaryStart"
      ]_vars

\* A consumer and a sender have each flagged a failure and returned, the
\* sender with a message that is requeued.
C24_Witness ==
    /\ \E g \in Gens : cpc[g] = "done" /\ craises[g] = 1
    /\ \E g \in Gens : spc[g] = "done" /\ sraises[g] = 1
    /\ lastFailed # 0
    /\ loc[lastFailed] \in {"primaryStart", "primary", "hand"}

\* C25: in the sender neither source of writes starves the other.  While the
\* sender of a healthy connection runs, a ping is written again and again,
\* however many messages are queued; and every message that is queued is
\* written, however often the ping ticker fires.
C25_NeitherSourceStarves ==
    /\ \A g \in Gens :
          [](spc[g] \in {"enter", "select", "write"}
                => <>(spc[g] = "write" /\ smsg[g] = 0))
    /\ \A m \in Msgs :
          []((loc[m] \in {"secondary", "hand"}
              /\ \E g \in Gens : spc[g] \in {"enter", "select", "write"})
                => <>(loc[m] = "written"))

\* A ping is being written while a message waits in the queue, after a
\* message was written.
C25_Witness ==
    /\ \E g \in Gens : spc[g] = "write" /\ smsg[g] = 0
    /\ \E m \in Msgs : loc[m] \in {"secondary", "hand"}
    /\ Len(written) > 0

\* C26 as stated: reading does not wait for the message handler, and the
\* handler is called with the messages in the order of their reception.
C26_HandlerCalledInReceptionOrder ==
    /\ \A g \in Gens :
          (cpc[g] = "read" /\ connOpen[cconn[g]]) => ENABLED consumer_readOK(g)
    /\ \A i, j \in 1..Len(hookCalls) : i < j => hookCalls[i] < hookCalls[j]

\* C26, amended: a message handler that does not return does not stall the
\* consumer.  Whatever the handler goroutines are doing, a consumer in
\* ReadMessage on an open connection can take the next message, and every
\* message read has a goroutine of its own for the handler, started in the
\* order of reception (the calls of the handler may begin in any order).
C26_ReadingNeverWaitsForHandler ==
    /\ \A g \in Gens :
          (cpc[g] = "read" /\ connOpen[cconn[g]]) => ENABLED consumer_readOK(g)
    /\ \A i \in Reads : hpc[i] # "none" <=> i <= nread
    /\ \A i \in 1..Len(hookCalls) : hpc[hookCalls[i]] \in {"running", "returned"}

\* The handler is still running for the first message while the third has
\* been read and handed to its goroutine.
C26_Witness ==
    /\ hpc[1] = "running"
    /\ hpc[2] # "none"
    /\ hpc[MaxReads] = "spawned"

\* C27: at most one connection is live at any time, and the reviver dials only
\* when the previous connection has been closed and the field cleared.
C27_OneLiveConnection ==
    /\ Cardinality({c \in Gens : connOpen[c]}) <= 1
    /\ rpc \in {"dial", "sleep"} => (connection = 0 /\ \A c \in Gens : ~connOpen[c])
    /\ connection # 0 => \A c \in Gens : connOpen[c] => c = connection

\* The reviver is dialing again after a connection it has closed, and the
\* second connection is the only one open.
C27_Witness ==
    /\ gen = MaxGen
    /\ connection = MaxGen
    /\ connOpen[MaxGen]
    /\ disconnectedCalls > 0

\* C28: once the stop channel of a pump has been closed, the pump attempts no
\* further read or write: the sender of generation g starts no write, and the
\* consumer of generation g no read, after the channel made for it has been
\* closed.
C28_NoReadOrWriteAfterStop ==
    [][\A g \in Gens :
          /\ (spc[g] # "write" /\ spc'[g] = "write") => senderStopChannel = g
          /\ (cpc[g] # "read" /\ cpc'[g] = "read")
                => /\ consumerStopChannel <= g
                   /\ ~(consumerStopChannel = g /\ consumerStopClosed)
      ]_vars

\* C29: a shutdown of the queue releases every waiter: once queue.run has
\* returned, no caller of pause or resume is left blocked in its send, for
\* nobody will receive from the pause and resume channels again.
C29_ShutdownReleasesWaiters ==
    qpc = "dead" => (pausers = 0 /\ resumers = 0)

\* C30: Reconnect on a connected client closes the connection and sets off
\* exactly one recovery; on a client that is not connected it changes
\* nothing.  With no failure of the transport and no Disconnect, the
\* disconnected handler has been called at most once for every connection a
\* Reconnect has closed, and no Reconnect has crashed the process.
C30_ReconnectOneRecovery ==
    (faults = 0 /\ disconnectCalls = 0)
        => /\ disconnectedCalls <= reconnectCloses
           /\ panicked = "none"

\* C31: the connected and the disconnected handler are called in turn,
\* the connected handler first: at any time the connected handler has been
\* called as often as the disconnected handler, or once more.
C31_HandlersAlternate ==
    /\ disconnectedCalls <= connectedCalls
    /\ connectedCalls <= disconnectedCalls + 1

\* The handlers have been called connected, disconnected, connected.
C31_Witness ==
    /\ connectedCalls = 2
    /\ disconnectedCalls = 1

\* C32: the reviver installs a connection only after a dial that succeeded:
\* setConnection is not reached with a nil connection, and so it never
\* crashes on one.
C32_InstallAfterSuccessfulDial ==
    /\ rpc \in {"install", "connected", "start"} => rconn # 0
    /\ panicked # "nil connection"

\* C33: BlockSend and UnblockSend return to their caller in every state of
\* the queue.  A caller waits in UnblockSend only while queue.run is in
\* awaitResume, where the resume is received, and a caller waits in BlockSend
\* only while queue.run is in one of the selects that receive the pause:
\* never with the sending not blocked, already blocked, or the queue shut
\* down and queue.run gone.
C33_BlockCallsReturn ==
    /\ blockCall = "resuming" => qpc \in {"await", "awaitOutput"}
    /\ blockCall = "pausing" => qpc \in {"outer", "inner", "output"}

=============================================================================
